---------------------------- MODULE Spec2Model ----------------------------
(***************************************************************************)
(* A model of the QUIC client of android/src/main/cpp/ngtcp2_jni.cpp:     *)
(* the JNI handle registry, one QuicClient (its resources, flags, stream  *)
(* store and pending-send queues), the worker thread running run_loop,     *)
(* and one caller thread at a time inside a facade operation (every JNI    *)
(* entry point holds connections_mutex for its whole duration).            *)
(*                                                                         *)
(* The protocol engine (ngtcp2) and the sockets are the environment: each  *)
(* engine call returns one of the results its interface allows.            *)
(***************************************************************************)
EXTENDS Integers, Sequences, FiniteSets, TLC

\* ------------------------------------------------------------------ bounds
\* Number of handles the registry hands out in a run.
MaxHandles == 1
\* Number of QuicClient::connect calls per client.
MaxConnects == 2
\* Number of locally opened streams the engine grants (ids 0, 4, ...).
MaxStreams == 2
\* Bytes written to all streams of a client together.
MaxBytes == 2
\* Bytes the peer delivers on all streams of a client together.
MaxRecvBytes == 2
\* Largest maxlen passed to read_stream (the JNI passes its buffer size).
MaxReadLen == 2

\* Number of handles handed out in a run of the registry alone.
MaxRegistry == 4
\* Number of caller threads at the JNI entry points.
MaxCallers == 2

StreamIds == { 4 * i : i \in 0..(MaxStreams - 1) }

\* ------------------------------------------------------------------ texts
ErrNone == ""
ErrTimedOut == "QUIC handshake timed out"
ErrHandshakeFailed == "QUIC handshake failed"
ErrNotInit == "QUIC connection not initialized"
ErrEngine == "ngtcp2_strerror"
ErrSend == "send failed"
ErrInvalid == "invalid connection"

\* The ways the four init_* calls of connect can end: "ok", or the first
\* step that fails.
InitOutcomes == {"ok", "socket", "tls_ctx", "tls_cfg", "tls_ssl", "tls_late",
                 "quic", "pipe"}

InitError(o) ==
  CASE o = "socket"   -> "Failed to create/connect UDP socket"
    [] o = "tls_ctx"  -> "wolfSSL_CTX_new failed"
    [] o = "tls_cfg"  -> "ngtcp2_crypto_wolfssl_configure_client_context failed"
    [] o = "tls_ssl"  -> "wolfSSL_new failed"
    [] o = "tls_late" -> "No CA bundle available for TLS verification"
    [] o = "quic"     -> "wolfSSL_RAND_bytes failed"
    [] o = "pipe"     -> "Failed to create wakeup pipe"
    [] OTHER          -> ErrNone

Resources == {"fd", "ssl_ctx", "ssl", "conn", "wake"}

VARIABLES
  \* registry
  connections,      \* handles in the registry map
  next_handle,      \* static jlong next_handle
  \* QuicClient fields
  slot,             \* fd_, ssl_ctx_, ssl_, conn_, wakeup_fds_: TRUE = held
  running_, connected_, close_requested_,
  worker_,          \* the std::thread member: "none", "joinable", "joined"
  last_error_str_,
  streams_,         \* stream id -> [recv_buf, fin_received, closed]
  outgoing_,        \* stream id -> sequence of OutgoingChunk
  wakeup_pending,   \* a byte is buffered in the wakeup pipe
  \* worker thread
  wpc,              \* position of the worker in run_loop
  w_first,          \* inside the send_pending_packets call before the loop
  w_stream_id, w_datav,   \* locals of send_pending_packets across the call
  \* caller thread (holds connections_mutex while cpc # "idle")
  cpc, c_arg,
  ret,              \* what the last connect call returned, and how
  connects,         \* connect calls made on the client
  \* engine (environment)
  eng_hs,           \* invocations of the handshake hook so far
  eng_streams, eng_shut,
  \* process
  crashed,          \* std::terminate was called
  \* history
  written, accepted, delivered, returned,
  created, released, unjoined, hs_transitions, close_log,
  \* observations
  issued,           \* the handles the create calls have returned, in order
  unseen_out,       \* a chunk was queued that no peek of the worker has seen
  egress,           \* the iteration of the egress loop that has just ended
  stale_ret,        \* the last call made on a handle not in the registry
  close_pkts,       \* the CONNECTION_CLOSE datagrams sent, one record each
  \* caller threads at the JNI entry points
  mutex,            \* connections_mutex: 0 when free, else the owning thread
  tpc               \* thread -> its position, the entry point and the handle

clientVars == <<slot, running_, connected_, close_requested_, worker_,
                last_error_str_, streams_, outgoing_, wakeup_pending>>
workerVars == <<wpc, w_first, w_stream_id, w_datav>>
callerVars == <<cpc, c_arg, ret, connects>>
engineVars == <<eng_hs, eng_streams, eng_shut>>
histVars == <<written, accepted, delivered, returned, created, released,
              unjoined, hs_transitions, close_log>>
obsVars == <<issued, unseen_out, egress, stale_ret, close_pkts>>
lockVars == <<mutex, tpc>>
vars == <<connections, next_handle, clientVars, workerVars, callerVars,
          engineVars, crashed, histVars, obsVars, lockVars>>

\* ----------------------------------------------------------------- helpers
NoSlots == [r \in Resources |-> FALSE]
ZeroCount == [r \in Resources |-> 0]
EmptySeqs == [s \in StreamIds |-> <<>>]

\* The handle of the client the model follows.
cur == next_handle - 1

RECURSIVE SumLen(_, _)
SumLen(f, S) ==
  IF S = {} THEN 0
  ELSE LET s == CHOOSE x \in S : TRUE IN Len(f[s]) + SumLen(f, S \ {s})
TotalLen(f) == SumLen(f, DOMAIN f)

Prefix(a, b) == Len(a) <= Len(b) /\ SubSeq(b, 1, Len(a)) = a

\* The k-th byte written to (delivered on) stream s: every byte of a run is
\* distinct, so a skipped, repeated or misplaced byte shows.
ByteOf(s, k) == 16 * s + k
Bytes(s, from, n) == [i \in 1..n |-> ByteOf(s, from + i)]

\* signal_wakeup writing nothing.
signal_wakeup_Silent(sl, pending) == pending

\* signal_wakeup: one byte into the pipe when its write end exists.
signal_wakeup(sl, pending) == IF sl["wake"] THEN TRUE ELSE pending

\* setError / clearError.
setError(err) == last_error_str_' = err
clearError == last_error_str_' = ErrNone

Ret(op, rv, how) == [op |-> op, rv |-> rv, how |-> how]

\* A JNI call on handle h returning rv.
Op(op, h, rv) == [op |-> op, h |-> h, rv |-> rv]
NoOp == Op("none", 0, "")

\* One iteration of the for(;;) of send_pending_packets: what the engine
\* returned for which stream, and the number of send() calls made.
Iter(kind, sid, n, sends) ==
  [kind |-> kind, stream_id |-> sid, wdatalen |-> n, sends |-> sends]
NoIter == Iter("none", -1, -1, 0)

\* The caller threads, and where one of them is: outside the JNI ("out"),
\* in a create call before its lock_guard ("pre"), blocked at a lock_guard
\* ("lock"), past it ("in"), or past it and inside the wait of connect or
\* the join of close ("wait").
Threads == 1..MaxCallers
At(pc, call, h) == [pc |-> pc, call |-> call, h |-> h]
Outside == At("out", "none", 0)

\* ------------------------------------------------------------------ Init
\* No handle has been created.  The client fields hold what the QuicClient
\* constructor sets; they describe a client once Create has run.
Init ==
  /\ connections = {}
  /\ next_handle = 1
  /\ slot = NoSlots
  /\ running_ = FALSE /\ connected_ = FALSE /\ close_requested_ = FALSE
  /\ worker_ = "none"
  /\ last_error_str_ = ErrNone
  /\ streams_ = <<>> /\ outgoing_ = <<>>
  /\ wakeup_pending = FALSE
  /\ wpc = "off" /\ w_first = FALSE /\ w_stream_id = -1 /\ w_datav = <<>>
  /\ cpc = "idle" /\ c_arg = -1
  /\ ret = Ret("none", 0, "")
  /\ connects = 0
  /\ eng_hs = 0 /\ eng_streams = {} /\ eng_shut = {}
  /\ crashed = FALSE
  /\ written = EmptySeqs /\ accepted = EmptySeqs
  /\ delivered = EmptySeqs /\ returned = EmptySeqs
  /\ created = ZeroCount /\ released = ZeroCount
  /\ unjoined = 0 /\ hs_transitions = 0 /\ close_log = <<>>
  /\ issued = <<>> /\ unseen_out = FALSE /\ egress = NoIter
  /\ stale_ret = NoOp
  /\ close_pkts = <<>>
  /\ mutex = 0 /\ tpc = [t \in Threads |-> Outside]

\* A caller may enter a facade operation on the live handle.
CallerFree == cpc = "idle" /\ ~crashed /\ cur \in connections

\* ---------------------------------------------------------------- create
\* nativeCreateConnection / nativeCreateConnectionWithAddress: construct a
\* QuicClient and register it under next_handle++.
Create ==
  /\ cpc = "idle" /\ ~crashed
  /\ connections = {}
  /\ next_handle <= MaxHandles
  /\ connections' = {next_handle}
  /\ next_handle' = next_handle + 1
  /\ slot' = NoSlots
  /\ running_' = FALSE /\ connected_' = FALSE /\ close_requested_' = FALSE
  /\ worker_' = "none"
  /\ last_error_str_' = ErrNone
  /\ streams_' = <<>> /\ outgoing_' = <<>>
  /\ wakeup_pending' = FALSE
  /\ wpc' = "off" /\ w_first' = FALSE /\ w_stream_id' = -1 /\ w_datav' = <<>>
  /\ c_arg' = -1 /\ cpc' = "idle"
  /\ ret' = Ret("none", 0, "")
  /\ connects' = 0
  /\ eng_hs' = 0 /\ eng_streams' = {} /\ eng_shut' = {}
  /\ written' = EmptySeqs /\ accepted' = EmptySeqs
  /\ delivered' = EmptySeqs /\ returned' = EmptySeqs
  /\ created' = ZeroCount /\ released' = ZeroCount
  /\ unjoined' = 0 /\ hs_transitions' = 0 /\ close_log' = <<>>
  /\ issued' = Append(issued, next_handle)
  /\ unseen_out' = FALSE /\ egress' = NoIter
  /\ close_pkts' = <<>>
  /\ UNCHANGED <<crashed, stale_ret, lockVars>>


\* --------------------------------------------------------------- connect
\* What the init_* calls of one connect create, and which slots a failing
\* step overwrites with null.
Made(o) ==
  CASE o = "socket"   -> {}
    [] o = "tls_ctx"  -> {"fd"}
    [] o = "tls_cfg"  -> {"fd", "ssl_ctx"}
    [] o = "tls_ssl"  -> {"fd", "ssl_ctx"}
    [] o = "tls_late" -> {"fd", "ssl_ctx", "ssl"}
    [] o = "quic"     -> {"fd", "ssl_ctx", "ssl"}
    [] o = "pipe"     -> {"fd", "ssl_ctx", "ssl", "conn"}
    [] OTHER          -> Resources

Nulled(o) ==
  CASE o = "tls_ctx" -> {"ssl_ctx"}
    [] o = "tls_ssl" -> {"ssl"}
    [] OTHER         -> {}

InitSlots(sl, o) ==
  [r \in Resources |-> IF r \in Made(o) THEN TRUE
                       ELSE IF r \in Nulled(o) THEN FALSE ELSE sl[r]]

\* worker_ = std::thread(...): the new thread is constructed, and assigning
\* it to a std::thread that is still joinable calls std::terminate.
StartWorker ==
  /\ unjoined' = unjoined + 1
  /\ IF worker_ = "joinable"
     THEN /\ crashed' = TRUE
          /\ UNCHANGED <<worker_, workerVars>>
     ELSE /\ worker_' = "joinable"
          /\ wpc' = "sp_head" /\ w_first' = TRUE
          /\ w_stream_id' = -1 /\ w_datav' = <<>>
          /\ UNCHANGED crashed

\* nativeConnect -> QuicClient::connect, up to the wait on cv_state_, with
\* the init_* calls ending in one of outcomes.
ConnectWith(outcomes) ==
  /\ CallerFree
  /\ connects < MaxConnects
  /\ connects' = connects + 1
  /\ IF connected_
     THEN /\ ret' = Ret("connect", 0, "already")
          /\ UNCHANGED <<clientVars, workerVars, cpc, engineVars, crashed,
                         created, unjoined>>
     ELSE \E o \in outcomes :
          /\ slot' = InitSlots(slot, o)
          /\ created' = [r \in Resources |->
                           created[r] + (IF r \in Made(o) THEN 1 ELSE 0)]
          /\ IF "conn" \in Made(o)
             THEN eng_hs' = 0 /\ eng_streams' = {} /\ eng_shut' = {}
             ELSE UNCHANGED engineVars
          /\ IF o = "ok"
             THEN /\ clearError
                  /\ running_' = TRUE
                  /\ StartWorker
                  /\ wakeup_pending' = TRUE
                  /\ cpc' = "connect_wait"
                  /\ UNCHANGED ret
             ELSE /\ setError(InitError(o))
                  /\ ret' = Ret("connect", -1, "init")
                  /\ UNCHANGED <<running_, worker_, workerVars, wakeup_pending,
                                 cpc, crashed, unjoined>>
          /\ UNCHANGED <<connected_, close_requested_, streams_, outgoing_>>
  /\ UNCHANGED <<connections, next_handle, c_arg, written, accepted,
                 delivered, returned, released, hs_transitions, close_log>>
  /\ UNCHANGED <<obsVars, lockVars>>

ConnectBegin == ConnectWith(InitOutcomes)

\* connect on a host where socket, TLS, engine and pipe set-up succeed.
ConnectUp == ConnectWith({"ok"})

\* connect ignoring the result of wait_for.
ConnectResult_NoTimeout(conn, run, err) ==
  IF ~conn
  THEN [rv |-> -1, how |-> IF run THEN "timeout" ELSE "exit",
        err |-> IF err = ErrNone THEN ErrHandshakeFailed ELSE err]
  ELSE [rv |-> 0, how |-> "connected", err |-> err]

\* The end of cv_state_.wait_for in connect and what connect returns:
\* the predicate connected_ || !running_ holds, or the 15 s ran out.
ConnectResult(conn, run, err) ==
  IF conn \/ ~run
  THEN IF ~conn
       THEN [rv |-> -1, how |-> "exit",
             err |-> IF err = ErrNone THEN ErrHandshakeFailed ELSE err]
       ELSE [rv |-> 0, how |-> "connected", err |-> err]
  ELSE [rv |-> -1, how |-> "timeout", err |-> ErrTimedOut]

ConnectWaitEnd ==
  /\ cpc = "connect_wait" /\ ~crashed
  /\ LET r == ConnectResult(connected_, running_, last_error_str_) IN
       /\ setError(r.err)
       /\ ret' = Ret("connect", r.rv, r.how)
  /\ cpc' = "idle"
  /\ UNCHANGED <<connections, next_handle, slot, running_, connected_,
                 close_requested_, worker_, streams_, outgoing_,
                 wakeup_pending, workerVars, c_arg, connects, engineVars,
                 crashed, histVars>>
  /\ UNCHANGED <<obsVars, lockVars>>

\* ----------------------------------------------------- send_pending_packets
Min(S) == CHOOSE k \in S : \A j \in S : k <= j

\* outgoing_.begin(): the queue of the smallest stream id, if it holds a chunk.
HeadStream(out) ==
  IF DOMAIN out = {} THEN -1
  ELSE IF out[Min(DOMAIN out)] # <<>> THEN Min(DOMAIN out) ELSE -1

\* datav: the head chunk from its cursor on.
HeadData(out, sid) ==
  IF sid = -1 THEN <<>>
  ELSE SubSeq(Head(out[sid]).data, Head(out[sid]).offset + 1,
              Len(Head(out[sid]).data))

\* AdvanceHead with the cursor of a partly taken chunk left where it was.
AdvanceHead_KeepCursor(out, sid, n) ==
  IF sid \in DOMAIN out /\ out[sid] # <<>>
  THEN IF Head(out[sid]).offset + n >= Len(Head(out[sid]).data)
       THEN [out EXCEPT ![sid] = Tail(@)]
       ELSE out
  ELSE out

\* AdvanceHead leaving a drained chunk at the head.
AdvanceHead_NoPop(out, sid, n) ==
  IF sid \in DOMAIN out /\ out[sid] # <<>>
  THEN [out EXCEPT ![sid] =
          <<[Head(@) EXCEPT !.offset = @ + n]>> \o Tail(@)]
  ELSE out

\* front().offset += wdatalen; pop_front() once the chunk is drained.
AdvanceHead(out, sid, n) ==
  IF sid \in DOMAIN out /\ out[sid] # <<>>
  THEN LET c == Head(out[sid])
           off == c.offset + n
       IN IF off >= Len(c.data)
          THEN [out EXCEPT ![sid] = Tail(@)]
          ELSE [out EXCEPT ![sid] = <<[c EXCEPT !.offset = off]>> \o Tail(@)]
  ELSE out

\* A return of 0 from send_pending_packets treated as a failure.
AfterSend_Break == IF w_first THEN "poll" ELSE "exit"

\* Where the worker goes when send_pending_packets returns 0.
AfterSend == IF w_first THEN "poll" ELSE "closechk"

\* Where the worker goes when send_pending_packets returns -1: the call
\* before the loop discards its result, the call in the loop breaks.
AfterSendError == IF w_first THEN "poll" ELSE "exit"

\* The top of the for(;;): the null check of conn_, then the peek under
\* out_mutex_.
SendHead ==
  /\ wpc = "sp_head" /\ ~crashed
  /\ IF ~slot["conn"]
     THEN /\ wpc' = AfterSend /\ w_first' = FALSE
          /\ UNCHANGED <<w_stream_id, w_datav>>
     ELSE /\ w_stream_id' = HeadStream(outgoing_)
          /\ w_datav' = HeadData(outgoing_, HeadStream(outgoing_))
          /\ wpc' = "sp_engine"
          /\ UNCHANGED w_first
  /\ UNCHANGED <<connections, next_handle, clientVars, callerVars,
                 engineVars, crashed, histVars>>
  /\ unseen_out' = IF slot["conn"] THEN FALSE ELSE unseen_out
  /\ egress' = NoIter
  /\ UNCHANGED <<issued, stale_ret, close_pkts, lockVars>>

\* What ngtcp2_conn_writev_stream may return for (stream_id, datav):
\* the write-more signal with wdatalen bytes taken, a packet (with stream
\* bytes taken or not), 0, or an error.
WritevResults(sid, data) ==
  IF sid # -1 /\ (sid \notin eng_streams \/ sid \in eng_shut)
  THEN {[kind |-> "err", n |-> -1]}
  ELSE {[kind |-> "zero", n |-> -1], [kind |-> "err", n |-> -1],
        [kind |-> "pkt", n |-> -1]}
       \cup (IF sid = -1 THEN {}
             ELSE {[kind |-> k, n |-> n] :
                      k \in {"more", "pkt"}, n \in 0..Len(data)})

\* The bytes the engine took from datav.
Taken(data, n) == IF n > 0 THEN SubSeq(data, 1, n) ELSE <<>>

\* The engine call returns; the cursor is advanced, the datagram sent.
SendEngine ==
  /\ wpc = "sp_engine" /\ ~crashed
  /\ \E r \in WritevResults(w_stream_id, w_datav), sent \in BOOLEAN :
       /\ (r.kind # "pkt") => sent
       /\ egress' = Iter(r.kind, w_stream_id, r.n,
                        IF r.kind = "pkt" THEN 1 ELSE 0)
       /\ accepted' = IF w_stream_id # -1 /\ r.n > 0
                      THEN [accepted EXCEPT ![w_stream_id] =
                              @ \o Taken(w_datav, r.n)]
                      ELSE accepted
       /\ CASE r.kind = "more" ->
                 /\ outgoing_' = AdvanceHead(outgoing_, w_stream_id, r.n)
                 /\ wpc' = "sp_head"
                 /\ UNCHANGED <<last_error_str_, w_first>>
            [] r.kind = "err" ->
                 /\ setError(ErrEngine)
                 /\ wpc' = AfterSendError /\ w_first' = FALSE
                 /\ UNCHANGED outgoing_
            [] r.kind = "zero" ->
                 /\ wpc' = AfterSend /\ w_first' = FALSE
                 /\ UNCHANGED <<outgoing_, last_error_str_>>
            [] r.kind = "pkt" ->
                 /\ outgoing_' = IF r.n > 0
                                 THEN AdvanceHead(outgoing_, w_stream_id, r.n)
                                 ELSE outgoing_
                 /\ IF sent
                    THEN /\ wpc' = "sp_head"
                         /\ UNCHANGED <<last_error_str_, w_first>>
                    ELSE /\ setError(ErrSend)
                         /\ wpc' = AfterSendError /\ w_first' = FALSE
  /\ w_stream_id' = -1 /\ w_datav' = <<>>
  /\ UNCHANGED <<connections, next_handle, slot, running_, connected_,
                 close_requested_, worker_, streams_, wakeup_pending,
                 callerVars, engineVars, crashed, written, delivered,
                 returned, created, released, unjoined, hs_transitions,
                 close_log>>
  /\ UNCHANGED <<issued, unseen_out, stale_ret, close_pkts, lockVars>>

\* ---------------------------------------------------------------- run_loop
\* while (running_): poll returns at once when a byte is buffered in the
\* wakeup pipe (fds[1] readable), otherwise on a readable socket or at its
\* timeout (at most 1 s).
Poll ==
  /\ wpc = "poll" /\ ~crashed
  /\ IF ~running_
     THEN wpc' = "exit"
     ELSE IF wakeup_pending
     THEN wpc' = "drain"
     ELSE \E readable \in BOOLEAN :
            wpc' = IF readable THEN "read" ELSE "expiry"
  /\ UNCHANGED <<connections, next_handle, slot, running_, connected_,
                 close_requested_, worker_, last_error_str_, streams_,
                 outgoing_, wakeup_pending, w_first, w_stream_id, w_datav,
                 callerVars, engineVars, crashed, histVars>>
  /\ egress' = NoIter
  /\ UNCHANGED <<issued, unseen_out, stale_ret, close_pkts, lockVars>>

\* drain_wakeup empties the pipe; then read_packets when the socket was
\* readable too.
Drain ==
  /\ wpc = "drain" /\ ~crashed
  /\ wakeup_pending' = FALSE
  /\ \E readable \in BOOLEAN :
       wpc' = IF readable THEN "read" ELSE "expiry"
  /\ UNCHANGED <<connections, next_handle, slot, running_, connected_,
                 close_requested_, worker_, last_error_str_, streams_,
                 outgoing_, w_first, w_stream_id, w_datav, callerVars,
                 engineVars, crashed, histVars>>
  /\ egress' = NoIter
  /\ UNCHANGED <<issued, unseen_out, stale_ret, close_pkts, lockVars>>

\* The hook toggling the flag.
on_handshake_completed_Toggle(c) == ~c

\* on_handshake_completed: the value connected_ takes.
on_handshake_completed(c) == TRUE

\* on_recv_stream_data: append to recv_buf, creating the entry; set fin.
NewStream == [recv_buf |-> <<>>, fin_received |-> FALSE, closed |-> FALSE]
StreamAt(st, sid) == IF sid \in DOMAIN st THEN st[sid] ELSE NewStream
\* on_recv_stream_data inserting at the front of recv_buf.
on_recv_stream_data_Front(st, sid, data, fin) ==
  [s \in DOMAIN st \cup {sid} |->
     IF s = sid
     THEN [StreamAt(st, sid) EXCEPT
             !.recv_buf = data \o @,
             !.fin_received = @ \/ fin]
     ELSE st[s]]

on_recv_stream_data(st, sid, data, fin) ==
  [s \in DOMAIN st \cup {sid} |->
     IF s = sid
     THEN [StreamAt(st, sid) EXCEPT
             !.recv_buf = @ \o data,
             !.fin_received = @ \/ fin]
     ELSE st[s]]

\* stream_close_cb: mark an existing entry closed.
stream_close_cb(st, sid) ==
  IF sid \in DOMAIN st THEN [st EXCEPT ![sid].closed = TRUE] ELSE st

\* read_packets: recv returns no datagram (the loop ends).
ReadNone ==
  /\ wpc = "read" /\ ~crashed
  /\ wpc' = "expiry"
  /\ UNCHANGED <<connections, next_handle, clientVars, w_first, w_stream_id,
                 w_datav, callerVars, engineVars, crashed, histVars>>
  /\ egress' = NoIter
  /\ UNCHANGED <<issued, unseen_out, stale_ret, close_pkts, lockVars>>

\* read_packets: ngtcp2_conn_read_pkt fails.
ReadError ==
  /\ wpc = "read" /\ ~crashed
  /\ setError(ErrEngine)
  /\ wpc' = "exit"
  /\ UNCHANGED <<connections, next_handle, slot, running_, connected_,
                 close_requested_, worker_, streams_, outgoing_,
                 wakeup_pending, w_first, w_stream_id, w_datav, callerVars,
                 engineVars, crashed, histVars>>
  /\ egress' = NoIter
  /\ UNCHANGED <<issued, unseen_out, stale_ret, close_pkts, lockVars>>

\* read_packets: a datagram on which the engine runs the handshake hook
\* (handshake_completed and handshake_confirmed both map to it, so it runs
\* at most twice).
ReadHandshake ==
  /\ wpc = "read" /\ ~crashed
  /\ eng_hs < 2
  /\ eng_hs' = eng_hs + 1
  /\ connected_' = on_handshake_completed(connected_)
  /\ hs_transitions' = hs_transitions +
                         (IF ~connected_ /\ connected_' THEN 1 ELSE 0)
  /\ UNCHANGED <<connections, next_handle, slot, running_, close_requested_,
                 worker_, last_error_str_, streams_, outgoing_,
                 wakeup_pending, workerVars, callerVars, eng_streams,
                 eng_shut, crashed, written, accepted, delivered, returned,
                 created, released, unjoined, close_log>>
  /\ egress' = NoIter
  /\ UNCHANGED <<issued, unseen_out, stale_ret, close_pkts, lockVars>>

\* read_packets: a datagram carrying stream data, delivered in stream order.
ReadStreamData ==
  /\ wpc = "read" /\ ~crashed
  /\ eng_hs > 0
  /\ \E sid \in eng_streams, n \in 0..MaxRecvBytes, fin \in BOOLEAN :
       /\ ~StreamAt(streams_, sid).fin_received
       /\ TotalLen(delivered) + n <= MaxRecvBytes
       /\ n > 0 \/ fin
       /\ LET data == Bytes(sid, Len(delivered[sid]), n) IN
            /\ streams_' = on_recv_stream_data(streams_, sid, data, fin)
            /\ delivered' = [delivered EXCEPT ![sid] = @ \o data]
  /\ UNCHANGED <<connections, next_handle, slot, running_, connected_,
                 close_requested_, worker_, last_error_str_, outgoing_,
                 wakeup_pending, workerVars, callerVars, engineVars, crashed,
                 written, accepted, returned, created, released, unjoined,
                 hs_transitions, close_log>>
  /\ egress' = NoIter
  /\ UNCHANGED <<issued, unseen_out, stale_ret, close_pkts, lockVars>>

\* read_packets: a datagram that closes a stream.
ReadStreamClose ==
  /\ wpc = "read" /\ ~crashed
  /\ \E sid \in eng_streams :
       /\ ~StreamAt(streams_, sid).closed
       /\ streams_' = stream_close_cb(streams_, sid)
  /\ UNCHANGED <<connections, next_handle, slot, running_, connected_,
                 close_requested_, worker_, last_error_str_, outgoing_,
                 wakeup_pending, workerVars, callerVars, engineVars, crashed,
                 histVars>>
  /\ egress' = NoIter
  /\ UNCHANGED <<issued, unseen_out, stale_ret, close_pkts, lockVars>>

\* handle_expiry: nothing due or the handler succeeds, or it fails.
Expiry ==
  /\ wpc = "expiry" /\ ~crashed
  /\ \E ok \in BOOLEAN :
       IF ok \/ ~slot["conn"]
       THEN wpc' = "sp_head" /\ UNCHANGED last_error_str_
       ELSE wpc' = "exit" /\ setError(ErrEngine)
  /\ UNCHANGED <<connections, next_handle, slot, running_, connected_,
                 close_requested_, worker_, streams_, outgoing_,
                 wakeup_pending, w_first, w_stream_id, w_datav, callerVars,
                 engineVars, crashed, histVars>>
  /\ egress' = NoIter
  /\ UNCHANGED <<issued, unseen_out, stale_ret, close_pkts, lockVars>>

\* if (close_requested_) { send_connection_close(); break; }
CloseCheck ==
  /\ wpc = "closechk" /\ ~crashed
  /\ wpc' = IF close_requested_ THEN "conn_close" ELSE "poll"
  /\ UNCHANGED <<connections, next_handle, clientVars, w_first, w_stream_id,
                 w_datav, callerVars, engineVars, crashed, histVars>>
  /\ egress' = NoIter
  /\ UNCHANGED <<issued, unseen_out, stale_ret, close_pkts, lockVars>>

\* The worker going round the loop again after send_connection_close.
AfterConnectionClose_Continue == "poll"

\* The break after send_connection_close.
AfterConnectionClose == "exit"

\* One CONNECTION_CLOSE datagram as it was sent: whether close had been
\* requested, and whether the engine was in its closing or draining period.
ClosePkt(requested, period) == [requested |-> requested, period |-> period]

\* send_connection_close: nothing without conn_ or when the engine is in
\* the closing or the draining period; otherwise the datagram the engine
\* writes is sent when its length is above 0.
send_connection_close(conn, period, nwrite) ==
  IF conn /\ ~period /\ nwrite > 0
  THEN <<ClosePkt(close_requested_, period)>> ELSE <<>>

\* The worker in send_connection_close: the engine answers the two period
\* queries and the write.
SendConnectionClose ==
  /\ wpc = "conn_close" /\ ~crashed
  /\ \E period \in BOOLEAN, nwrite \in {-1, 0, 1} :
       close_pkts' = close_pkts \o
                       send_connection_close(slot["conn"], period, nwrite)
  /\ wpc' = AfterConnectionClose
  /\ UNCHANGED <<connections, next_handle, clientVars, w_first, w_stream_id,
                 w_datav, callerVars, engineVars, crashed, histVars>>
  /\ egress' = NoIter
  /\ UNCHANGED <<issued, unseen_out, stale_ret, lockVars>>

\* run_loop returning with running_ left as it was.
run_loop_exit_Keep(run) == run

\* The end of run_loop: running_ = false; cv_state_.notify_all().
run_loop_exit(run) == FALSE
WorkerExit ==
  /\ wpc = "exit" /\ ~crashed
  /\ running_' = run_loop_exit(running_)
  /\ wpc' = "done"
  /\ UNCHANGED <<connections, next_handle, slot, connected_,
                 close_requested_, worker_, last_error_str_, streams_,
                 outgoing_, wakeup_pending, w_first, w_stream_id, w_datav,
                 callerVars, engineVars, crashed, histVars>>
  /\ egress' = NoIter
  /\ UNCHANGED <<issued, unseen_out, stale_ret, close_pkts, lockVars>>

\* ------------------------------------------------------------ stream calls
\* nativeOpenStream -> open_stream: the null check of conn_, then the call
\* of ngtcp2_conn_open_bidi_stream on the caller's thread.
OpenBegin ==
  /\ CallerFree
  /\ IF ~slot["conn"]
     THEN /\ setError(ErrNotInit)
          /\ ret' = ret
          /\ UNCHANGED cpc
     ELSE /\ cpc' = "open_engine"
          /\ UNCHANGED <<last_error_str_, ret>>
  /\ UNCHANGED <<connections, next_handle, slot, running_, connected_,
                 close_requested_, worker_, streams_, outgoing_,
                 wakeup_pending, workerVars, c_arg, connects, engineVars,
                 crashed, histVars>>
  /\ UNCHANGED <<obsVars, lockVars>>

\* The id the engine gives the next locally opened stream, -1 when it grants
\* none (handshake not completed, or the peer's stream limit reached).
NextStreamId ==
  IF eng_hs > 0 /\ Cardinality(eng_streams) < MaxStreams
  THEN 4 * Cardinality(eng_streams) ELSE -1

\* streams_.emplace(stream_id, StreamState{}): an existing entry stays.
emplace(st, sid) ==
  [s \in DOMAIN st \cup {sid} |-> IF s \in DOMAIN st THEN st[s] ELSE NewStream]

\* The engine call of open_stream returns.
OpenEnd ==
  /\ cpc = "open_engine" /\ ~crashed
  /\ IF NextStreamId = -1
     THEN /\ setError(ErrEngine)
          /\ ret' = ret
          /\ UNCHANGED <<streams_, wakeup_pending, eng_streams>>
     ELSE /\ eng_streams' = eng_streams \cup {NextStreamId}
          /\ streams_' = emplace(streams_, NextStreamId)
          /\ wakeup_pending' = signal_wakeup(slot, wakeup_pending)
          /\ ret' = ret
          /\ UNCHANGED last_error_str_
  /\ cpc' = "idle"
  /\ UNCHANGED <<connections, next_handle, slot, running_, connected_,
                 close_requested_, worker_, outgoing_, workerVars, c_arg,
                 connects, eng_hs, eng_shut, crashed, histVars>>
  /\ UNCHANGED <<obsVars, lockVars>>

\* outgoing_[stream_id].push_back(chunk)
push_chunk(out, sid, data, fin) ==
  [s \in DOMAIN out \cup {sid} |->
     (IF s \in DOMAIN out THEN out[s] ELSE <<>>)
       \o (IF s = sid
           THEN <<[data |-> data, offset |-> 0, fin |-> fin]>> ELSE <<>>)]

\* nativeWriteStream -> write_stream(stream_id, data, len, false).  An empty
\* array returns 0 before the client is called.
WriteStream ==
  /\ CallerFree
  /\ \E sid \in StreamIds, n \in 0..MaxBytes :
       /\ TotalLen(written) + n <= MaxBytes
       /\ IF n = 0
          THEN /\ ret' = ret
               /\ UNCHANGED <<last_error_str_, outgoing_, wakeup_pending,
                              written, unseen_out>>
          ELSE IF ~slot["conn"]
          THEN /\ setError(ErrNotInit)
               /\ ret' = ret
               /\ UNCHANGED <<outgoing_, wakeup_pending, written,
                              unseen_out>>
          ELSE LET data == Bytes(sid, Len(written[sid]), n) IN
               /\ outgoing_' = push_chunk(outgoing_, sid, data, FALSE)
               /\ written' = [written EXCEPT ![sid] = @ \o data]
               /\ wakeup_pending' = signal_wakeup(slot, wakeup_pending)
               /\ ret' = ret
               /\ unseen_out' = TRUE
               /\ UNCHANGED last_error_str_
  /\ UNCHANGED <<connections, next_handle, slot, running_, connected_,
                 close_requested_, worker_, streams_, workerVars, cpc, c_arg,
                 connects, engineVars, crashed, accepted, delivered,
                 returned, created, released, unjoined, hs_transitions,
                 close_log>>
  /\ UNCHANGED <<issued, egress, stale_ret, close_pkts, lockVars>>

\* read_stream: the first min(maxlen, size) bytes of recv_buf leave it.
Take(q, n) == SubSeq(q, 1, IF n < Len(q) THEN n ELSE Len(q))
Drop(q, n) == SubSeq(q, (IF n < Len(q) THEN n ELSE Len(q)) + 1, Len(q))
read_stream_bytes(st, sid, maxlen) ==
  IF sid \in DOMAIN st THEN Take(st[sid].recv_buf, maxlen) ELSE <<>>
read_stream_rest(st, sid, maxlen) ==
  IF sid \in DOMAIN st
  THEN [st EXCEPT ![sid].recv_buf = Drop(@, maxlen)] ELSE st

\* nativeReadStream -> read_stream(stream_id, buffer, maxlen).
ReadStream ==
  /\ CallerFree
  /\ \E sid \in StreamIds, maxlen \in 1..MaxReadLen :
       LET got == read_stream_bytes(streams_, sid, maxlen) IN
       /\ streams_' = read_stream_rest(streams_, sid, maxlen)
       /\ returned' = [returned EXCEPT ![sid] = @ \o got]
       /\ ret' = ret
  /\ UNCHANGED <<connections, next_handle, slot, running_, connected_,
                 close_requested_, worker_, last_error_str_, outgoing_,
                 wakeup_pending, workerVars, cpc, c_arg, connects,
                 engineVars, crashed, written, accepted, delivered, created,
                 released, unjoined, hs_transitions, close_log>>
  /\ UNCHANGED <<obsVars, lockVars>>

\* nativeCloseStream -> close_stream: the null check of conn_, then the call
\* of ngtcp2_conn_shutdown_stream_write on the caller's thread.
ShutBegin ==
  /\ CallerFree
  /\ \E sid \in StreamIds :
       IF ~slot["conn"]
       THEN /\ ret' = ret
            /\ UNCHANGED <<cpc, c_arg>>
       ELSE /\ cpc' = "shut_engine" /\ c_arg' = sid
            /\ UNCHANGED ret
  /\ UNCHANGED <<connections, next_handle, clientVars, workerVars, connects,
                 engineVars, crashed, histVars>>
  /\ UNCHANGED <<obsVars, lockVars>>

\* The engine call of close_stream returns.
ShutEnd ==
  /\ cpc = "shut_engine" /\ ~crashed
  /\ IF c_arg \notin eng_streams
     THEN /\ setError(ErrEngine)
          /\ ret' = ret
          /\ UNCHANGED <<wakeup_pending, eng_shut>>
     ELSE /\ eng_shut' = eng_shut \cup {c_arg}
          /\ wakeup_pending' = signal_wakeup(slot, wakeup_pending)
          /\ ret' = ret
          /\ UNCHANGED last_error_str_
  /\ cpc' = "idle" /\ c_arg' = -1
  /\ UNCHANGED <<connections, next_handle, slot, running_, connected_,
                 close_requested_, worker_, streams_, outgoing_, workerVars,
                 connects, eng_hs, eng_streams, crashed, histVars>>
  /\ UNCHANGED <<obsVars, lockVars>>

\* ------------------------------------------------------------------ close
\* cleanup releasing what the slots hold without nulling them.
cleanup_KeepSlots(sl) == sl

\* cleanup: every owning slot is nulled, and what it held is released.
cleanup(sl) == NoSlots
Freed(sl) == {r \in Resources : sl[r]}
Release(sl) == [r \in Resources |-> released[r] + (IF sl[r] THEN 1 ELSE 0)]

\* The record of one close() call: what it released, whether it waited for
\* the worker, and the client state it left.
Closed(sl, thr, wait) ==
  [freed |-> Freed(sl), joined |-> wait,
   after |-> [slot |-> cleanup(sl), running |-> running_,
              connected |-> connected_, worker |-> thr,
              err |-> last_error_str_]]

\* One QuicClient::close() call up to its join: with running_ false it is
\* cleanup() and return; otherwise close_requested_ is set and the worker
\* woken.  done and join are the caller's next positions.
CloseEnter(done, join) ==
  IF ~running_
  THEN /\ slot' = cleanup(slot)
       /\ released' = Release(slot)
       /\ close_log' = Append(close_log, Closed(slot, worker_, FALSE))
       /\ cpc' = done
       /\ UNCHANGED <<close_requested_, wakeup_pending>>
  ELSE /\ close_requested_' = TRUE
       /\ wakeup_pending' = signal_wakeup(slot, wakeup_pending)
       /\ cpc' = join
       /\ UNCHANGED <<slot, released, close_log>>

\* nativeClose -> close(), first part.
CloseBegin ==
  /\ CallerFree
  /\ CloseEnter("closed1", "close_join")
  /\ UNCHANGED <<connections, next_handle, running_, connected_, worker_,
                 last_error_str_, streams_, outgoing_, workerVars, c_arg,
                 ret, connects, engineVars, crashed, written, accepted,
                 delivered, returned, created, unjoined, hs_transitions>>
  /\ UNCHANGED <<obsVars, lockVars>>

\* worker_.join() returns once run_loop has returned; then cleanup().
CloseJoin ==
  /\ cpc \in {"close_join", "dtor_join"} /\ ~crashed
  /\ worker_ = "joinable" => wpc = "done"
  /\ worker_' = IF worker_ = "joinable" THEN "joined" ELSE worker_
  /\ unjoined' = unjoined - (IF worker_ = "joinable" THEN 1 ELSE 0)
  /\ slot' = cleanup(slot)
  /\ released' = Release(slot)
  /\ close_log' = Append(close_log, Closed(slot, worker_', TRUE))
  /\ cpc' = IF cpc = "close_join" THEN "closed1" ELSE "closed2"
  /\ UNCHANGED <<connections, next_handle, running_, connected_,
                 close_requested_, last_error_str_, streams_, outgoing_,
                 wakeup_pending, workerVars, c_arg, ret, connects,
                 engineVars, crashed, written, accepted, delivered, returned,
                 created, hs_transitions>>
  /\ UNCHANGED <<obsVars, lockVars>>

\* connections.erase(it) destroys the client: ~QuicClient calls close().
DtorClose ==
  /\ cpc = "closed1" /\ ~crashed
  /\ CloseEnter("closed2", "dtor_join")
  /\ UNCHANGED <<connections, next_handle, running_, connected_, worker_,
                 last_error_str_, streams_, outgoing_, workerVars, c_arg,
                 ret, connects, engineVars, crashed, written, accepted,
                 delivered, returned, created, unjoined, hs_transitions>>
  /\ UNCHANGED <<obsVars, lockVars>>

\* nativeClose leaving the handle in the registry.
Destroy_NoErase ==
  /\ cpc = "closed2" /\ ~crashed
  /\ IF worker_ = "joinable"
     THEN crashed' = TRUE /\ UNCHANGED <<connections, cpc, ret>>
     ELSE /\ connections' = connections
          /\ cpc' = "idle"
          /\ ret' = ret
          /\ UNCHANGED crashed
  /\ UNCHANGED <<next_handle, clientVars, workerVars, c_arg, connects,
                 engineVars, histVars>>
  /\ UNCHANGED <<obsVars, lockVars>>

\* The members are destroyed: ~thread on a joinable worker_ calls
\* std::terminate.  Otherwise the handle leaves the registry and nativeClose
\* returns.
Destroy ==
  /\ cpc = "closed2" /\ ~crashed
  /\ IF worker_ = "joinable"
     THEN crashed' = TRUE /\ UNCHANGED <<connections, cpc, ret>>
     ELSE /\ connections' = connections \ {cur}
          /\ cpc' = "idle"
          /\ ret' = ret
          /\ UNCHANGED crashed
  /\ UNCHANGED <<next_handle, clientVars, workerVars, c_arg, connects,
                 engineVars, histVars>>
  /\ UNCHANGED <<obsVars, lockVars>>

\* nativeGetLastError -> last_error(): last_error_str_.c_str() is taken with
\* no lock on err_mutex_; c_arg keeps the text the returned pointer showed.
GetLastErrorBegin ==
  /\ CallerFree
  /\ cpc' = "err_read" /\ c_arg' = last_error_str_
  /\ UNCHANGED <<connections, next_handle, clientVars, workerVars, ret,
                 connects, engineVars, crashed, histVars, obsVars, lockVars>>

\* NewStringUTF copies from the pointer.  When setError has assigned the
\* string in between, the copy reads a buffer that was being written or has
\* been freed: it yields some text, or the process dies.
GetLastErrorEnd ==
  /\ cpc = "err_read" /\ ~crashed
  /\ cpc' = "idle" /\ c_arg' = -1
  /\ IF c_arg # last_error_str_
     THEN crashed' \in BOOLEAN
     ELSE UNCHANGED crashed
  /\ UNCHANGED <<connections, next_handle, clientVars, workerVars, ret,
                 connects, engineVars, histVars, obsVars, lockVars>>

\* nativeIsConnected, nativeGetLastError: reads under connections_mutex.
is_connected == connected_
nativeIsConnected(h) == IF h \in connections THEN is_connected ELSE FALSE
nativeGetLastError(h) ==
  IF h \in connections THEN last_error_str_ ELSE ErrInvalid

\* --------------------------------------------------------------- registry
\* The registry with several clients, none of them ever connected: their
\* fields stay as the constructor set them.
\* nativeCreateConnection / nativeCreateConnectionWithAddress beside other
\* registered handles: handle = next_handle++ under connections_mutex.  When
\* a string argument cannot be read, 0 is returned and nothing is touched.
post_increment_Stuck(n) == n
post_increment(n) == n + 1
CreateBeside ==
  /\ cpc = "idle" /\ ~crashed
  /\ next_handle <= MaxRegistry
  /\ \E strings_ok \in BOOLEAN :
       IF strings_ok
       THEN /\ connections' = connections \cup {next_handle}
            /\ issued' = Append(issued, next_handle)
            /\ next_handle' = post_increment(next_handle)
       ELSE UNCHANGED <<connections, issued, next_handle>>
  /\ UNCHANGED <<clientVars, workerVars, callerVars, engineVars, crashed,
                 histVars, unseen_out, egress, stale_ret, close_pkts, lockVars>>

\* nativeClose on a registered client that was never connected: close() is
\* cleanup() of empty slots, then the erase destroys the client (no thread
\* to join).
CloseIdle ==
  /\ cpc = "idle" /\ ~crashed
  /\ worker_ = "none" /\ slot = NoSlots
  /\ \E h \in connections : connections' = connections \ {h}
  /\ UNCHANGED <<next_handle, clientVars, workerVars, callerVars, engineVars,
                 crashed, histVars, obsVars, lockVars>>

\* The JNI entry points that take a handle, and what each returns when
\* connections.find(connHandle) == connections.end().
JniCalls ==
  {"connect", "open_stream", "write_stream", "read_stream", "close",
   "is_connected", "close_stream", "last_error", "last_resolved_address"}

\* The lookup failing to tell a missing handle from a connected one.
NotFound_AsConnected(call) ==
  CASE call \in {"connect", "open_stream", "write_stream", "close_stream"}
         -> "0"
    [] call = "is_connected" -> "JNI_TRUE"
    [] call \in {"read_stream", "last_resolved_address"} -> "nullptr"
    [] call = "last_error" -> ErrNone
    [] OTHER -> "void"

NotFound(call) ==
  CASE call \in {"connect", "open_stream", "write_stream", "close_stream"}
         -> "-1"
    [] call = "is_connected" -> "JNI_FALSE"
    [] call \in {"read_stream", "last_resolved_address"} -> "nullptr"
    [] call = "last_error" -> ErrInvalid
    [] OTHER -> "void"

\* Any of these calls with a handle that is not in the registry.
StaleCall ==
  /\ cpc = "idle" /\ ~crashed
  /\ \E h \in (0..(MaxRegistry + 1)) \ connections, call \in JniCalls :
       stale_ret' = Op(call, h, NotFound(call))
  /\ UNCHANGED <<connections, next_handle, clientVars, workerVars,
                 callerVars, engineVars, crashed, histVars, issued,
                 unseen_out, egress, close_pkts, lockVars>>

\* ------------------------------------------------------------ caller threads
\* Several threads at the JNI entry points.  What an operation does to its
\* client is the subject of the actions above, which follow one caller;
\* here only its extent counts: where its lock_guard on connections_mutex
\* is constructed, how long it lives, and what the call does to the
\* registry.
\* A mutex that lets a thread in whoever owns it.
lock_guard_Barging(m) == TRUE

\* std::lock_guard<std::mutex> lock(connections_mutex) can be constructed.
lock_guard(m) == m = 0

\* The thread is past its lock_guard, in the body of the entry point.
Inside(t) == tpc[t].pc \in {"in", "wait"}

\* A thread enters an entry point.  Those taking a handle construct their
\* lock_guard in their first statement; the create calls first read their
\* string arguments and construct the QuicClient.
JniEnter(t) ==
  /\ tpc[t].pc = "out" /\ ~crashed
  /\ \/ /\ next_handle <= MaxRegistry
        /\ tpc' = [tpc EXCEPT ![t] = At("pre", "create", 0)]
     \/ \E call \in JniCalls, h \in 1..MaxRegistry :
          tpc' = [tpc EXCEPT ![t] = At("lock", call, h)]
  /\ UNCHANGED <<connections, next_handle, clientVars, workerVars,
                 callerVars, engineVars, crashed, histVars, obsVars, mutex>>

\* nativeCreateConnection before its lock_guard: GetStringUTFChars fails
\* and 0 is returned, or the client is constructed.
JniConstruct(t) ==
  /\ tpc[t].pc = "pre" /\ ~crashed
  /\ \E strings_ok \in BOOLEAN :
       tpc' = [tpc EXCEPT ![t] = IF strings_ok
                                 THEN At("lock", "create", 0) ELSE Outside]
  /\ UNCHANGED <<connections, next_handle, clientVars, workerVars,
                 callerVars, engineVars, crashed, histVars, obsVars, mutex>>

\* The lock_guard is constructed: the thread owns connections_mutex.
JniLock(t) ==
  /\ tpc[t].pc = "lock" /\ ~crashed
  /\ lock_guard(mutex)
  /\ mutex' = t
  /\ tpc' = [tpc EXCEPT ![t].pc = "in"]
  /\ UNCHANGED <<connections, next_handle, clientVars, workerVars,
                 callerVars, engineVars, crashed, histVars, obsVars>>

\* nativeConnect in cv_state_.wait_for, nativeClose in worker_.join(): the
\* thread stays in the body, the lock_guard alive.
JniWait(t) ==
  /\ tpc[t].pc = "in" /\ ~crashed
  /\ tpc[t].call \in {"connect", "close"}
  /\ tpc[t].h \in connections
  /\ tpc' = [tpc EXCEPT ![t].pc = "wait"]
  /\ UNCHANGED <<connections, next_handle, clientVars, workerVars,
                 callerVars, engineVars, crashed, histVars, obsVars, mutex>>

\* The entry point returns and its lock_guard is destroyed.  Before that a
\* create call has registered the client under next_handle++, and
\* nativeClose has erased the handle it found.
JniReturn(t) ==
  /\ Inside(t) /\ ~crashed
  /\ IF tpc[t].call = "create"
     THEN /\ connections' = connections \cup {next_handle}
          /\ issued' = Append(issued, next_handle)
          /\ next_handle' = post_increment(next_handle)
     ELSE /\ connections' = IF tpc[t].call = "close"
                            THEN connections \ {tpc[t].h} ELSE connections
          /\ UNCHANGED <<issued, next_handle>>
  /\ mutex' = IF mutex = t THEN 0 ELSE mutex
  /\ tpc' = [tpc EXCEPT ![t] = Outside]
  /\ UNCHANGED <<clientVars, workerVars, callerVars, engineVars, crashed,
                 histVars, unseen_out, egress, stale_ret, close_pkts>>

NextLock ==
  \E t \in Threads :
    \/ JniEnter(t) \/ JniConstruct(t) \/ JniLock(t)
    \/ JniWait(t) \/ JniReturn(t)

SpecLock == Init /\ [][NextLock]_vars

\* ------------------------------------------------------------------- Spec
\* The caller's lifecycle calls, the worker's loop, the stream calls that
\* enter the engine, and the two data paths.
Lifecycle ==
  \/ Create \/ ConnectBegin \/ ConnectWaitEnd
  \/ CloseBegin \/ CloseJoin \/ DtorClose \/ Destroy

Loop ==
  \/ SendHead \/ SendEngine \/ Poll \/ Drain
  \/ ReadNone \/ ReadError \/ ReadHandshake
  \/ Expiry \/ CloseCheck \/ SendConnectionClose \/ WorkerExit

StreamCalls == OpenBegin \/ OpenEnd \/ ShutBegin \/ ShutEnd

Egress == WriteStream

Ingress == ReadStreamData \/ ReadStream

Next == Lifecycle \/ Loop \/ StreamCalls

Closing == CloseBegin \/ CloseJoin \/ DtorClose \/ Destroy

NextSend ==
  \/ Create \/ ConnectUp \/ ConnectWaitEnd \/ Closing
  \/ Loop \/ OpenBegin \/ OpenEnd \/ Egress

NextRecv ==
  \/ Create \/ ConnectUp \/ ConnectWaitEnd \/ Closing
  \/ Loop \/ OpenBegin \/ OpenEnd \/ Ingress

Spec == Init /\ [][Next]_vars

SpecSend == Init /\ [][NextSend]_vars

SpecRecv == Init /\ [][NextRecv]_vars

\* The lifecycle with a caller reading the error text.
NextErr ==
  \/ Create \/ ConnectUp \/ ConnectWaitEnd \/ Closing
  \/ Loop \/ GetLastErrorBegin \/ GetLastErrorEnd

SpecErr == Init /\ [][NextErr]_vars

\* The egress path with a caller that also shuts streams down.
NextShut ==
  \/ Create \/ ConnectUp \/ ConnectWaitEnd \/ Closing
  \/ Loop \/ OpenBegin \/ OpenEnd \/ Egress \/ ShutBegin \/ ShutEnd

SpecShut == Init /\ [][NextShut]_vars

\* The registry under creates, closes and calls on handles it does not
\* hold.
NextReg == CreateBeside \/ CloseIdle \/ StaleCall

SpecReg == Init /\ [][NextReg]_vars

\* The engine takes at least one byte of the stream data it is offered.
SendAccept == SendEngine /\ accepted' # accepted

\* The engine has nothing more to write: send_pending_packets returns 0.
SendIdle == SendEngine /\ wpc' \in {"poll", "closechk"} /\ w_stream_id = -1

\* The egress specification with a fair worker (the thread keeps being
\* scheduled while it has a step to take) and an engine that, offered stream
\* data again and again, takes some of it, and that, with no stream data
\* offered, at last has no further packet to write.
FairSend ==
  SpecSend /\ WF_vars(Loop) /\ SF_vars(SendAccept) /\ SF_vars(SendIdle)

\* The lifecycle with a worker thread that keeps being scheduled and a
\* connect call whose wait ends (by a notification or after its 15 s).
FairLoop == Spec /\ WF_vars(Loop) /\ WF_vars(ConnectWaitEnd)

\* The egress loop ends: the engine returns 0 or an error, or a send fails.
SendLeaves == SendEngine /\ wpc' # "sp_head"

\* The lifecycle with a fair scheduler for the worker and for the caller
\* inside nativeClose, and an engine whose egress loop ends.
FairClose ==
  Spec /\ WF_vars(Loop) /\ WF_vars(Closing) /\ SF_vars(SendLeaves)

\* ------------------------------------------------------------------ claims
\* The bytes of the chunks still queued for a stream, from the head's cursor.
RECURSIVE Flatten(_)
Flatten(q) ==
  IF q = <<>> THEN <<>>
  ELSE SubSeq(Head(q).data, Head(q).offset + 1, Len(Head(q).data))
         \o Flatten(Tail(q))
Queued(s) == IF s \in DOMAIN outgoing_ THEN Flatten(outgoing_[s]) ELSE <<>>

\* C1: for every stream, the bytes the engine has accepted are at every
\* moment a prefix of the concatenation of the chunks written to it, and
\* the accepted bytes followed by what is still queued are exactly the
\* bytes written: nothing is skipped, duplicated or reordered.
C1_AcceptedIsPrefix ==
  \A s \in StreamIds :
    /\ Prefix(accepted[s], written[s])
    /\ accepted[s] \o Queued(s) = written[s]

\* C1 witness: the engine has taken part of a chunk and the rest of it is
\* still queued behind the advanced cursor.
C1_Witness ==
  \E s \in DOMAIN outgoing_ :
    /\ outgoing_[s] # <<>>
    /\ Head(outgoing_[s]).offset > 0
    /\ accepted[s] # <<>>

\* C2 (the claim): whenever an open stream has bytes queued, they are
\* eventually all handed to the engine and removed from the queue, unless
\* the worker has stopped (close, fatal error) or the process has died.
C2_EveryStreamDrains ==
  \A s \in StreamIds :
    (s \in eng_streams /\ Queued(s) # <<>>)
      ~> (Queued(s) = <<>> \/ wpc \in {"off", "done"} \/ crashed)

RecvBuf(s) == IF s \in DOMAIN streams_ THEN streams_[s].recv_buf ELSE <<>>

\* C3: for every stream, the bytes returned by the read_stream calls so far
\* followed by the bytes still buffered are the delivered bytes in delivery
\* order (so the returned bytes are a prefix of them, and all of them once
\* the buffer is drained), and a read_stream call with maxlen m returns at
\* most m bytes.
C3_ReadsInOrder ==
  \A s \in StreamIds :
    /\ returned[s] \o RecvBuf(s) = delivered[s]
    /\ Prefix(returned[s], delivered[s])
    /\ RecvBuf(s) = <<>> => returned[s] = delivered[s]
    /\ \A m \in 1..MaxReadLen :
         /\ Len(read_stream_bytes(streams_, s, m)) <= m
         /\ Prefix(read_stream_bytes(streams_, s, m), RecvBuf(s))

\* C3 witness: a read cut short by maxlen: some delivered bytes have been
\* returned and others are still buffered.
C3_Witness ==
  \E s \in StreamIds :
    /\ returned[s] # <<>> /\ RecvBuf(s) # <<>>
    /\ Len(delivered[s]) >= 2

\* C4 (the claim): when close() has returned, the worker has finished
\* run_loop and has been joined.
C4_JoinedWhenCloseReturns ==
  cpc = "closed1" => wpc \in {"off", "done"} /\ worker_ # "joinable"

\* C5: after close() has been called twice in sequence, no worker is running
\* and every resource slot is absent, the second call has left the state the
\* first call left, has released nothing, has not waited for a thread, and
\* has stored no error.
C5_CloseTwice ==
  cpc = "closed2" =>
    /\ Len(close_log) = 2
    /\ slot = NoSlots
    /\ ~running_ /\ wpc \in {"off", "done"}
    /\ close_log[2].after = close_log[1].after
    /\ close_log[2].after.slot = slot
    /\ close_log[2].freed = {}
    /\ ~close_log[2].joined
    /\ last_error_str_ = close_log[1].after.err

\* C5 witness: the second close() has returned on a client whose first
\* close() joined the worker and released the connection's resources.
C5_Witness ==
  /\ cpc = "closed2"
  /\ close_log[1].joined
  /\ close_log[1].freed = Resources

WorkerRunning == wpc \notin {"off", "done"}
ConnectReturned(rv) == cpc = "idle" /\ ret.op = "connect" /\ ret.rv = rv

\* C6: once connect has returned 0 on a handle, is_connected is true on it
\* while the worker is running; once close has returned on the handle,
\* is_connected is false on it.
C6_IsConnected ==
  /\ (ConnectReturned(0) /\ cur \in connections /\ WorkerRunning)
       => nativeIsConnected(cur)
  /\ (cpc = "idle" /\ close_log # <<>>) => ~nativeIsConnected(cur)

\* C6 witness: close has returned on a handle whose connect had returned 0.
C6_Witness ==
  /\ ConnectReturned(0) /\ close_log # <<>> /\ connected_
  /\ close_log[1].joined

\* C7: connected_ changes only from false to true, only in the handshake
\* hook run by the worker inside read_packets, and at most once in the life
\* of a client; the only other change is the construction of a new client.
C7_HandshakeMonotone ==
  /\ [][connected_' # connected_ =>
          \/ /\ ~connected_ /\ connected_'
             /\ wpc = "read" /\ eng_hs' = eng_hs + 1
             /\ hs_transitions = 0
          \/ next_handle' # next_handle]_vars
  /\ [](hs_transitions <= 1)

\* C7 witness: the hook has run twice (completed and confirmed) and the flag
\* has changed once.
C7_Witness == eng_hs = 2 /\ connected_ /\ hs_transitions = 1

\* C8 (the claim): the caller's thread and the worker are never both inside
\* an engine call.
C8_EngineWorkerOnly ==
  ~(cpc \in {"open_engine", "shut_engine"} /\ wpc = "sp_engine")

\* C9 (the claim): at most one worker thread that has not been joined
\* exists at any time.
C9_OneWorker == unjoined <= 1

\* C10: connect returns 0 only with connected_ true.  When its wait ends
\* with connected_ false and the worker still running (the 15 s ran out) it
\* returns -1 and last_error is the timed-out text; when it ends with
\* connected_ false and the worker loop over, it returns -1 and last_error
\* is the stored error, or the handshake-failed text when none is stored.
C10_ConnectResult ==
  /\ [](ConnectReturned(0) => connected_)
  /\ [][(cpc = "connect_wait" /\ cpc' = "idle") =>
          /\ ret'.rv = 0 <=> connected_
          /\ (~connected_ /\ running_) =>
               /\ ret'.rv = -1 /\ ret'.how = "timeout"
               /\ last_error_str_' = ErrTimedOut
          /\ (~connected_ /\ ~running_) =>
               /\ ret'.rv = -1 /\ ret'.how = "exit"
               /\ wpc = "done"
               /\ last_error_str_' =
                    IF last_error_str_ = ErrNone
                    THEN ErrHandshakeFailed ELSE last_error_str_
               /\ last_error_str_' \in {ErrEngine, ErrSend,
                                        ErrHandshakeFailed}]_vars

\* C10 witness: connect has returned by its timeout, the worker still
\* running and not connected.
C10_Witness ==
  /\ ConnectReturned(-1) /\ ret.how = "timeout"
  /\ last_error_str_ = ErrTimedOut /\ running_ /\ ~connected_

\* run_loop has ended through one of its breaks on an error (the break on
\* close_requested_ was not open), and the client is still registered.
FatalExit ==
  /\ wpc = "done" /\ ~close_requested_
  /\ cur \in connections /\ ~crashed

\* C11 (the claim): once a fatal error has ended the worker loop, no later
\* write_stream on the handle enqueues a chunk: every such call fails.
C11_NoWorkAfterFatalError ==
  [][FatalExit => (outgoing_' = outgoing_ /\ written' = written)]_vars

\* C12 (the claim): once the worker loop of a connection whose handshake
\* had completed has stored a message and exited on a fatal error,
\* is_connected is false on the handle.
C12_NotConnectedAfterFatalError ==
  (FatalExit /\ eng_hs > 0 /\ last_error_str_ # ErrNone /\ cpc = "idle")
    => ~nativeIsConnected(cur)

\* C13 (the claim): when open_stream or close_stream returns, last_error is
\* non-empty exactly when the call has failed: a failing call stores a text
\* and a succeeding call leaves last_error empty.
C13_ErrorIffLastFailed ==
  [][/\ (cpc = "open_engine" /\ cpc' = "idle")
          => (last_error_str_' # ErrNone <=> NextStreamId = -1)
     /\ (cpc = "shut_engine" /\ cpc' = "idle")
          => (last_error_str_' # ErrNone <=> c_arg \notin eng_streams)]_vars

\* C14 (the claim): a caller's read of the error string never overlaps a
\* setError of the worker: from the moment last_error takes the string to
\* the end of its copy, the string is the one it took.
C14_ErrorReadNotOverlapped ==
  cpc = "err_read" => last_error_str_ = c_arg

C16_ReleasedExactlyOnce ==
  \A r \in Resources :
    created[r] - released[r] = IF slot[r] THEN 1 ELSE 0

\* C17: every handle a create call has returned is greater than 0 and
\* differs from every handle returned before it, whether or not that one
\* has since been closed; the registered handles are among them.
C17_HandlesNeverReused ==
  /\ \A i \in 1..Len(issued) :
       /\ issued[i] > 0
       /\ \A j \in 1..(i - 1) : issued[j] # issued[i]
  /\ \A h \in connections : \E i \in 1..Len(issued) : issued[i] = h

\* C17 witness: a handle has been created after an earlier one was closed,
\* while another is still registered.
C17_Witness ==
  /\ Len(issued) >= 3
  /\ issued[1] \notin connections
  /\ issued[2] \in connections
  /\ issued[3] \in connections

\* C18: a call with a handle that is not in the registry returns its
\* failure value (-1 for connect, open_stream, write_stream and
\* close_stream; false for is_connected; null for read_stream and
\* last_resolved_address; the invalid-connection text for last_error;
\* nothing for close) and changes neither the registry nor any client.
C18_StaleHandleFails ==
  /\ [](stale_ret.op # "none" =>
          stale_ret.rv =
            CASE stale_ret.op \in {"connect", "open_stream", "write_stream",
                                   "close_stream"} -> "-1"
              [] stale_ret.op = "is_connected" -> "JNI_FALSE"
              [] stale_ret.op \in {"read_stream", "last_resolved_address"}
                   -> "nullptr"
              [] stale_ret.op = "last_error" -> "invalid connection"
              [] stale_ret.op = "close" -> "void")
  /\ [][stale_ret' # stale_ret =>
          /\ stale_ret'.h \notin connections
          /\ UNCHANGED <<connections, next_handle, clientVars, workerVars,
                         engineVars, histVars, issued>>]_vars

\* C18 witness: last_error was called with a handle that had been created
\* and closed, while other handles were registered.
C18_Witness ==
  /\ stale_ret.op = "last_error"
  /\ \E i \in 1..Len(issued) : issued[i] = stale_ret.h
  /\ stale_ret.h \notin connections
  /\ connections # {}

\* The bytes queued for stream s in the queues out, from the head's cursor.
QueuedIn(out, s) == IF s \in DOMAIN out THEN Flatten(out[s]) ELSE <<>>

\* In this step the cursor of stream sid moves forward by n bytes, which the
\* engine has accepted, and no other queue changes.
CursorAdvances(sid, n) ==
  IF sid = -1 \/ n <= 0
  THEN outgoing_' = outgoing_ /\ accepted' = accepted
  ELSE /\ DOMAIN outgoing_' = DOMAIN outgoing_
       /\ \A s \in DOMAIN outgoing_ :
            QueuedIn(outgoing_', s) =
              IF s = sid
              THEN SubSeq(Queued(s), n + 1, Len(Queued(s)))
              ELSE Queued(s)
       /\ accepted' = [accepted EXCEPT ![sid] = @ \o SubSeq(Queued(sid), 1, n)]

\* C19: in every iteration of the egress loop: on the write-more signal the
\* cursor advances by wdatalen, no datagram is sent and the loop goes on;
\* on a packet exactly one datagram is sent and the cursor of the stream
\* that supplied the data advances by wdatalen, the loop going on unless
\* the send fails; on 0 the loop ends with success, nothing sent, nothing
\* changed; on another negative value the error text is stored and the
\* loop ends with failure.
C19_EgressIteration ==
  [][(wpc = "sp_engine" /\ wpc' # "sp_engine") =>
       /\ egress'.kind \in {"more", "pkt", "zero", "err"}
       /\ egress'.kind = "more" =>
            /\ egress'.sends = 0
            /\ CursorAdvances(egress'.stream_id, egress'.wdatalen)
            /\ wpc' = "sp_head"
            /\ last_error_str_' = last_error_str_
       /\ egress'.kind = "pkt" =>
            /\ egress'.sends = 1
            /\ CursorAdvances(egress'.stream_id, egress'.wdatalen)
            /\ \/ wpc' = "sp_head" /\ last_error_str_' = last_error_str_
               \/ /\ last_error_str_' = ErrSend
                  /\ wpc' = IF w_first THEN "poll" ELSE "exit"
       /\ egress'.kind = "zero" =>
            /\ egress'.sends = 0
            /\ outgoing_' = outgoing_ /\ accepted' = accepted
            /\ wpc' = IF w_first THEN "poll" ELSE "closechk"
            /\ last_error_str_' = last_error_str_
       /\ egress'.kind = "err" =>
            /\ egress'.sends = 0
            /\ outgoing_' = outgoing_ /\ accepted' = accepted
            /\ last_error_str_' = ErrEngine
            /\ wpc' = IF w_first THEN "poll" ELSE "exit"]_vars

\* C19 witness: an iteration in which the engine wrote a packet taking part
\* of the head chunk: one datagram sent, the rest of the chunk still queued.
C19_Witness ==
  /\ egress.kind = "pkt" /\ egress.wdatalen > 0 /\ egress.sends = 1
  /\ wpc = "sp_head"
  /\ Queued(egress.stream_id) # <<>>
  /\ Head(outgoing_[egress.stream_id]).offset = egress.wdatalen

\* C20: every queued chunk has a cursor smaller than its length, only the
\* head chunk of a queue has a cursor other than 0, and the cursor of a
\* chunk that stays at the head of its queue never decreases.
C20_CursorInRange ==
  /\ [](\A s \in DOMAIN outgoing_ : \A i \in 1..Len(outgoing_[s]) :
          /\ outgoing_[s][i].offset >= 0
          /\ outgoing_[s][i].offset < Len(outgoing_[s][i].data)
          /\ i > 1 => outgoing_[s][i].offset = 0)
  /\ [][\A s \in DOMAIN outgoing_ \cap DOMAIN outgoing_' :
          (/\ outgoing_[s] # <<>> /\ outgoing_'[s] # <<>>
           /\ Head(outgoing_'[s]).data = Head(outgoing_[s]).data)
            => Head(outgoing_'[s]).offset >= Head(outgoing_[s]).offset]_vars

\* C20 witness: the engine has just taken the whole of a stream's head
\* chunk, which left the queue in that step; the chunk written after it is
\* now the head, its cursor 0.
C20_Witness ==
  /\ egress.kind \in {"more", "pkt"} /\ egress.wdatalen > 0
  /\ \E s \in DOMAIN outgoing_ :
       /\ s = egress.stream_id
       /\ Len(outgoing_[s]) = 1 /\ Head(outgoing_[s]).offset = 0
       /\ accepted[s] # <<>>
       /\ accepted[s] \o Head(outgoing_[s]).data = written[s]

\* A step of a loop cycle reports a fatal error: read_packets,
\* handle_expiry or the send_pending_packets call of the loop returns
\* non-zero and run_loop breaks.
FatalStep == wpc \in {"read", "expiry", "sp_engine"} /\ wpc' = "exit"

C22_OneConnectionClose ==
  /\ [](/\ Len(close_pkts) <= 1
        /\ \A i \in 1..Len(close_pkts) :
             close_pkts[i].requested /\ ~close_pkts[i].period
        /\ close_pkts # <<>> => wpc \in {"exit", "done"})
  /\ [][(close_pkts' # close_pkts /\ next_handle' = next_handle) =>
          /\ wpc = "conn_close" /\ wpc' = "exit"
          /\ close_requested_ /\ slot["conn"]
          /\ callerVars' = callerVars]_vars
  /\ [][(wpc' = "conn_close" /\ wpc # "conn_close") =>
          (wpc = "closechk" /\ close_requested_)]_vars
  /\ [][(wpc' = "closechk" /\ wpc # "closechk") =>
          (wpc \in {"sp_head", "sp_engine"} /\ ~w_first
           /\ last_error_str_' = last_error_str_)]_vars

\* C22 witness: close was requested, the worker sent the one
\* CONNECTION_CLOSE and has returned from run_loop, the caller still
\* waiting to join it.
C22_Witness ==
  /\ Len(close_pkts) = 1
  /\ wpc = "done" /\ ~running_
  /\ cpc = "close_join"

\* The caller is inside nativeClose: in close() waiting to join, between
\* close() and the destructor, in the destructor's close(), or at the
\* destruction of the members.
InClose == cpc \in {"close_join", "closed1", "dtor_join", "closed2"}

\* C23 (the claim): every close call on a registered handle returns.
C23_CloseReturns == InClose ~> (cpc = "idle")

\* The caller in close and the worker never wait on each other for ever:
\* a close call returns unless the process dies.
CloseEndsOrDies == InClose ~> (cpc = "idle" \/ crashed)

\* C24 (the claim): when close_stream shuts down the write side of a
\* stream, the pending-send queue of that stream is empty: every byte
\* written to the stream before the call has been handed to the engine.
C24_ShutAfterQueueDrained ==
  [][(cpc = "shut_engine" /\ c_arg \in eng_shut' \ eng_shut) =>
       (Queued(c_arg) = <<>> /\ accepted[c_arg] = written[c_arg])]_vars

\* C25 (the claim): every stream id that has a queue in outgoing_ has an
\* entry in streams_.
C25_QueuedStreamsKnown == DOMAIN outgoing_ \subseteq DOMAIN streams_

\* C26 (the claim): whenever is_connected is true on a handle and no connect
\* call is in progress on it, a connect call on it has returned 0.  (After
\* a connect call has returned 0 every later one returns 0 too, so it is
\* the last call's result that tells.)
C26_ConnectedOnlyByConnect ==
  (nativeIsConnected(cur) /\ cpc # "connect_wait" /\ ~crashed)
    => (ret.op = "connect" /\ ret.rv = 0)

\* C27: at most one caller thread is in the body of an entry point that
\* takes a handle, or in the registering part of a create call, and that
\* thread owns connections_mutex from its first statement to its return,
\* the wait of connect and the join of close included; so the registry
\* changes, and a client is closed and destroyed, only while no other
\* thread is in the body of any entry point.
C27_OneCallerInside ==
  /\ [](\A t, u \in Threads :
          /\ Inside(t) => mutex = t
          /\ (Inside(t) /\ Inside(u)) => t = u)
  /\ [][\A t \in Threads :
          /\ (Inside(t) /\ tpc'[t].pc # "out") => mutex' = t
          /\ (tpc[t].pc = "lock" /\ tpc'[t].pc # "lock") =>
               (tpc'[t].pc = "in" /\ mutex' = t)]_vars
  /\ [][connections' # connections =>
          \E t \in Threads :
            /\ mutex = t /\ Inside(t) /\ tpc'[t].pc = "out"
            /\ \A u \in Threads \ {t} : ~Inside(u)]_vars

\* C27 witness: one thread is in the wait of connect on a registered handle
\* while another, which has called close on the same handle, is held at its
\* lock_guard.
C27_Witness ==
  \E t, u \in Threads :
    /\ tpc[t].pc = "wait" /\ tpc[t].call = "connect"
    /\ tpc[t].h \in connections /\ mutex = t
    /\ tpc[u].pc = "lock" /\ tpc[u].call = "close" /\ tpc[u].h = tpc[t].h

=============================================================================
